---------------------------- MODULE Spec2Model ----------------------------
(***************************************************************************)
(* A model of NZ_crawler.py: the crawl of the judgment listing year by     *)
(* year and page by page, the per-row processing (detail page, PDF, text), *)
(* the six PATTERNS applied with re.finditer, and the export.              *)
(*                                                                         *)
(* Text is modelled as a sequence of tokens.  A token is one character     *)
(* (" ", "N" for the newline, "." for a sentence-terminal mark, "i" for    *)
(* the lower-case letter i) or one whole occurrence of a key phrase, in    *)
(* the letter case PATTERNS declares it in:                                *)
(*   "Q" The question is whether     "C" The leading case                  *)
(*   "A" The leading authority       "I" The issue here is whether         *)
(*   "T" The applicable test is      "H" The applicable threshold is       *)
(* and "t" for "the applicable test is" written in lower case.  Citations  *)
(* and metadata are sequences of single characters.                        *)
(***************************************************************************)
EXTENDS Integers, Sequences, FiniteSets, TLC

\* ------------------------------------------------------------------ bounds

\* Most result rows the site serves over one run (all listing pages together).
MaxRows == 2

\* The site lists judgments for the first ListedYears years of the range only;
\* for the later years every listing request fails or finds an empty page.
ListedYears == 2

\* Longest page text (in tokens) of the PDFs drawn in SpecMatch.
MaxLen == 5

\* --------------------------------------------------------------- constants

BASE_URL == "https://www.courtsofnz.govt.nz/"

\* YEARS_TO_CRAWL = range(2004, 2026)
YearFirst == 2004

YearStop == 2026

YEARS_TO_CRAWL == YearFirst .. (YearStop - 1)

\* The listing's page size: start_index += 10
PageStep == 10

\* {0,50} in the first pattern
MaxClauses == 50

\* The number of digits \d{4} asks for
YearDigits == 4

\* ------------------------------------------------------- character strings

DigitChars == <<"0", "1", "2", "3", "4", "5", "6", "7", "8", "9">>

IsDigit(c) == \E d \in 1..10 : DigitChars[d] = c

RECURSIVE Decimal(_)
\* str(n) for n >= 0, as a sequence of characters
Decimal(n) ==
    IF n < 10 THEN <<DigitChars[n + 1]>>
    ELSE Decimal(n \div 10) \o <<DigitChars[(n % 10) + 1]>>

RECURSIVE Replace(_, _, _)
\* str.replace(old, new) for a one-character old: every occurrence is replaced
Replace(s, old, new) ==
    IF s = <<>> THEN <<>>
    ELSE (IF Head(s) = old THEN new ELSE <<Head(s)>>) \o Replace(Tail(s), old, new)

\* DocId with the last replace dropped: the spaces stay
DocId_KeepSpaces(citation) ==
    Replace(Replace(citation, "[", <<>>), "]", <<>>)

\* citation.replace('[', '').replace(']', '').replace(' ', '_')
DocId(citation) ==
    Replace(Replace(Replace(citation, "[", <<>>), "]", <<>>), " ", <<"_">>)

\* f"UNKNOWN_CITATION_{year}"
UnknownCitation(y) ==
    <<"U","N","K","N","O","W","N","_","C","I","T","A","T","I","O","N","_">> \o Decimal(y)

\* The characters of "] NZSC " that follow the four digits
CourtPart == <<"]", " ", "N", "Z", "S", "C", " ">>

RECURSIVE DigitRunEnd(_, _)
\* The index of the last character of the longest digit run starting at i
\* (i - 1 when s[i] is no digit): the greedy \d+
DigitRunEnd(s, i) ==
    IF i <= Len(s) /\ IsDigit(s[i]) THEN DigitRunEnd(s, i + 1) ELSE i - 1

\* The end of a match of \[\d{4}\] NZSC \d+ that starts at i, or 0
CitationMatchAt(s, i) ==
    LET d0 == i + 1
        c0 == d0 + YearDigits
        n0 == c0 + Len(CourtPart)
    IN  IF /\ n0 <= Len(s)
           /\ s[i] = "["
           /\ \A k \in d0..(c0 - 1) : IsDigit(s[k])
           /\ \A k \in 1..Len(CourtPart) : s[c0 + k - 1] = CourtPart[k]
           /\ IsDigit(s[n0])
        THEN DigitRunEnd(s, n0)
        ELSE 0

\* re.search(r'\[\d{4}\] NZSC \d+', text): the leftmost match, or <<>> for None
CitationSearch(s) ==
    LET starts == {i \in 1..Len(s) : CitationMatchAt(s, i) > 0}
    IN  IF starts = {} THEN <<>>
        ELSE LET i == CHOOSE m \in starts : \A o \in starts : m <= o
             IN  SubSeq(s, i, CitationMatchAt(s, i))

\* citation_match.group(0) if citation_match else f"UNKNOWN_CITATION_{year}"
CitationOf(meta, y) ==
    IF CitationSearch(meta) # <<>> THEN CitationSearch(meta) ELSE UnknownCitation(y)

\* ------------------------------------------------------------ the patterns

\* The keys of PATTERNS, in the order the dict declares them
PatternNames ==
    << "The question is whether", "The leading case", "The leading authority",
       "The issue here is whether", "The applicable test is",
       "The applicable threshold is" >>

\* The phrase token each pattern looks for
PatternPhrase == <<"Q", "C", "A", "I", "T", "H">>

NumPatterns == Len(PatternNames)

PhraseTokens == {"Q", "C", "A", "I", "T", "H", "t"}

\* \n
IsNewline(c) == c = "N"

\* \s
IsSpace(c) == c \in {" ", "N"}

\* [.!?]
IsTerminal(c) == c = "."

\* Whether the token holds a lower-case letter i: the letter itself, and every
\* key phrase as written ("question", "leading", "issue", "applicable")
HasI(c) == c = "i" \/ c \in PhraseTokens

\* The part of a token from its first letter i on: the letter itself, or the
\* tail of a phrase (written as the phrase token followed by "~")
FromI(c) == IF c = "i" THEN "i" ELSE c \o "~"

\* No newline among text[a..b]
SameLine(text, a, b) == \A j \in a..b : ~IsNewline(text[j])

RECURSIVE LineEnd(_, _)
\* The index of the last token of the line that holds position k: [^\n]* greedy
LineEnd(text, k) ==
    IF k < Len(text) /\ ~IsNewline(text[k + 1]) THEN LineEnd(text, k + 1) ELSE k

NoMatch == [found |-> FALSE, start |-> 0, end |-> 0, text |-> <<>>]

Least(S) == CHOOSE m \in S : \A o \in S : m <= o

\* (?i)[^\n]*PHRASE[^\n]* searched from pos: the leftmost start from which the
\* phrase follows on the same line; the match runs to the end of that line
SearchLine(phrase, text, pos) ==
    LET starts == {s \in pos..Len(text) :
                     \E k \in s..Len(text) : text[k] = phrase /\ SameLine(text, s, k)}
    IN  IF starts = {} THEN NoMatch
        ELSE LET s == Least(starts)
                 e == LineEnd(text, s)
             IN  [found |-> TRUE, start |-> s, end |-> e, text |-> SubSeq(text, s, e)]

\* (i)[^\n]*The applicable test is[^\n]* searched from pos: "(i)" is a group
\* matching the letter i, and no flag: the match starts at the leftmost letter
\* i that the phrase, in exactly the declared letter case, follows on the same
\* line, and runs to the end of that line
SearchBrokenFlag(phrase, text, pos) ==
    LET starts == {s \in pos..Len(text) :
                     /\ HasI(text[s])
                     /\ \E k \in (s + 1)..Len(text) :
                            text[k] = phrase /\ SameLine(text, s, k)}
    IN  IF starts = {} THEN NoMatch
        ELSE LET s == Least(starts)
                 e == LineEnd(text, s)
             IN  [found |-> TRUE, start |-> s, end |-> e,
                  text |-> <<FromI(text[s])>> \o SubSeq(text, s + 1, e)]

\* The least number of repetitions of (?:[^\n.!?]*[\s\n]) that consume
\* text[s..p-1]: one for each newline, and one more for a last piece that ends
\* in another whitespace
ClausesNeeded(text, s, p) ==
    Cardinality({j \in s..(p - 1) : IsNewline(text[j])})
      + (IF s < p /\ ~IsNewline(text[p - 1]) THEN 1 ELSE 0)

\* (?:[^\n.!?]*[\s\n]){0,50} can consume exactly text[s..p-1]
PrefixOK(text, s, p) ==
    /\ \A j \in s..(p - 1) : ~IsTerminal(text[j])
    /\ s = p \/ IsSpace(text[p - 1])
    /\ ClausesNeeded(text, s, p) <= MaxClauses

\* .*?(?:[\.!?](?=\s|$)) after the phrase at p: the terminal marks on the
\* phrase's line that whitespace or the end of the text follows
SentenceEnds(text, p) ==
    {e \in (p + 1)..Len(text) :
        /\ IsTerminal(text[e])
        /\ SameLine(text, p + 1, e - 1)
        /\ e = Len(text) \/ IsSpace(text[e + 1])}

\* The first pattern searched from pos: the leftmost start from which up to 50
\* clauses lead to the phrase and the phrase's sentence ends on its line; the
\* match ends at the first such end (.*? is lazy)
SearchQuestion(phrase, text, pos) ==
    LET Phrases(s) == {p \in s..Len(text) :
                         /\ text[p] = phrase
                         /\ PrefixOK(text, s, p)
                         /\ SentenceEnds(text, p) # {}}
        starts == {s \in pos..Len(text) : Phrases(s) # {}}
    IN  IF starts = {} THEN NoMatch
        ELSE LET s == Least(starts)
                 p == Least(Phrases(s))
                 e == Least(SentenceEnds(text, p))
             IN  [found |-> TRUE, start |-> s, end |-> e, text |-> SubSeq(text, s, e)]

\* The next match of pattern k at or after pos, as re.finditer finds it
Search(k, text, pos) ==
    IF k = 1 THEN SearchQuestion(PatternPhrase[k], text, pos)
    ELSE IF k = 5 THEN SearchBrokenFlag(PatternPhrase[k], text, pos)
    ELSE SearchLine(PatternPhrase[k], text, pos)

RECURSIVE LStrip(_)
LStrip(s) == IF s # <<>> /\ IsSpace(Head(s)) THEN LStrip(Tail(s)) ELSE s

RECURSIVE RStrip(_)
RStrip(s) ==
    IF s # <<>> /\ IsSpace(s[Len(s)]) THEN RStrip(SubSeq(s, 1, Len(s) - 1)) ELSE s

\* str.strip()
Strip(s) == RStrip(LStrip(s))

\* --------------------------------------------------------------- the site

\* What the site can answer, as far as the program reads it.  A result row is
\* what lines 89-98 read of a div.result: whether it has an h3, whether the h3
\* holds an a, the a's text and href, and the text of its p.meta-data.

MetaCited == <<"1", "[", "2", "0", "2", "1", "]", " ", "N", "Z", "S", "C", " ", "1", "2", " ">>

MetaUncited == <<"[", "2", "1", "]", " ", "N", "Z", "S", "C", " ", "3">>

Row(h3, a, has_href, href, title, has_meta, meta) ==
    [h3 |-> h3, a |-> a, has_href |-> has_href, href |-> href, title |-> title,
     has_meta |-> has_meta, meta |-> meta]

RowNoH3 == Row(FALSE, FALSE, FALSE, "", "", TRUE, MetaCited)

RowNoA == Row(TRUE, FALSE, FALSE, "", "", TRUE, MetaCited)

RowNoMeta == Row(TRUE, TRUE, TRUE, "cases/r-v-brown", "R v Brown", FALSE, <<>>)

RowNoHref == Row(TRUE, TRUE, FALSE, "", "R v Green", TRUE, MetaCited)

RowCited == Row(TRUE, TRUE, TRUE, "cases/r-v-smith", "R v Smith", TRUE, MetaCited)

RowUncited == Row(TRUE, TRUE, TRUE, "cases/re-jones", "Re Jones", TRUE, MetaUncited)

SampleRows == {RowNoH3, RowNoA, RowNoMeta, RowNoHref, RowCited, RowUncited}

\* A link of a detail page: its href is stem \o ext
Link(stem, ext) == [stem |-> stem, ext |-> ext]

DetailNoPdf == <<Link("cases/summary", ".html"), Link("files/judgment", ".PDF")>>

DetailWithPdf ==
    <<Link("cases/summary", ".html"), Link("files/judgment", ".pdf"),
      Link("files/media-release", ".pdf")>>

SampleDetails == {DetailNoPdf, DetailWithPdf}

\* A PDF is the sequence of its pages' texts (<<>>: a page with no text)
PdfScanned == << <<>> >>

PdfAuthority == << <<"A", " ", "i", ".">> >>

PdfSeveral == << <<"C", " ", "T", ".">>, <<>>, <<" ", "Q", ".", " ", "t">> >>

SamplePdfs == {PdfScanned, PdfAuthority, PdfSeveral}

\* get_soup's None, and a parsed page
NoSoup == [none |-> TRUE, results |-> <<>>, links |-> <<>>]

ListingSoup(rows) == [none |-> FALSE, results |-> rows, links |-> <<>>]

DetailSoup(links) == [none |-> FALSE, results |-> <<>>, links |-> links]

SeqsUpTo(S, n) == UNION {[1..k -> S] : k \in 1..n}

\* ------------------------------------------------------------------- state

VARIABLES
    pc,               \* where main() is
    exception,        \* the uncaught exception that ended main(), or ""
    year,             \* for year in YEARS_TO_CRAWL
    start_index,
    soup,
    results,
    idx,              \* the position of `result` in results
    case_title,
    case_details_url,
    citation,
    details_soup,
    pdf_url,
    document_text,
    pattern_i,        \* the position of the for loop over PATTERNS.items()
    scan_pos,         \* where re.finditer searches next
    all_propositions,
    csv_file,         \* NZSC_Propositions_Export.csv
    xlsx_file,        \* NZSC_Propositions_Export.xlsx
    report,           \* what main() printed at its end
    served,           \* the result rows the site has served so far
    log,              \* history: the requests sent, in order
    origin,           \* history: where each record of all_propositions comes from
    since_case,       \* history: "case" from a case's detail request to the next sleep
    case_base         \* history: Len(all_propositions) when the case's matching began

vars ==
    << pc, exception, year, start_index, soup, results, idx, case_title,
       case_details_url, citation, details_soup, pdf_url, document_text,
       pattern_i, scan_pos, all_propositions, csv_file, xlsx_file, report,
       served, log, origin, since_case, case_base >>

NoFile == [exists |-> FALSE, rows |-> <<>>]

Init ==
    /\ pc = "fetch_listing"
    /\ exception = ""
    /\ year = YearFirst
    /\ start_index = 0
    /\ soup = NoSoup
    /\ results = <<>>
    /\ idx = 0
    /\ case_title = ""
    /\ case_details_url = ""
    /\ citation = <<>>
    /\ details_soup = NoSoup
    /\ pdf_url = ""
    /\ document_text = <<>>
    /\ pattern_i = 0
    /\ scan_pos = 0
    /\ all_propositions = <<>>
    /\ csv_file = NoFile
    /\ xlsx_file = NoFile
    /\ report = ""
    /\ served = 0
    /\ log = <<>>
    /\ origin = <<>>
    /\ since_case = "none"
    /\ case_base = 0

\* ----------------------------------------------------------------- helpers

\* urljoin(BASE_URL, href) for a relative reference with no leading slash
UrlJoin(base, href) == base \o href

\* tag['href']
Href(link) == link.stem \o link.ext

\* details_soup.find('a', href=re.compile(r'\.pdf$')): the position of the first
\* link whose href ends in ".pdf", or 0 for None
FindPdfTag(links) ==
    LET hits == {k \in 1..Len(links) : links[k].ext = ".pdf"}
    IN  IF hits = {} THEN 0 ELSE Least(hits)

RECURSIVE ExtractText(_)
\* The loop over pdf.pages: full_text += text + "\n" for each page with text
ExtractText(pages) ==
    IF pages = <<>> THEN <<>>
    ELSE (IF Head(pages) # <<>> THEN Head(pages) \o <<"N">> ELSE <<>>)
           \o ExtractText(Tail(pages))

\* The list with x put first instead of last
ListPrepend(list, x) == <<x>> \o list

\* all_propositions.append(proposition_data)
ListAppend(list, x) == Append(list, x)

\* The next page's offset left where it is
NextStart_Same(s) == s

\* start_index += 10
NextStart(s) == s + PageStep

\* start_index = 0 at the top of each year
StartOfYear(s) == 0

\* The empty collection taken for a full one
NothingExtracted_Never(props) == FALSE

\* if not all_propositions
NothingExtracted(props) == props = <<>>

\* The iterator exhausted after its first match
AfterMatch_FirstOnly(m, text) == Len(text) + 1

\* Where re.finditer searches next after a (non-empty) match m
AfterMatch(m, text) == m.end + 1

\* proposition_data
PropositionData(m) ==
    [doc_id |-> DocId(citation),
     title |-> case_title,
     url |-> pdf_url,
     proposition |-> Strip(m.text),
     citation |-> citation,
     pattern_matched |-> PatternNames[pattern_i]]

\* A request as the log keeps it (row 0: the listing page itself)
Request(kind, row) == <<kind, year, start_index, row>>

\* The place a match comes from: year, page, row, pattern, position in the text
OriginKey(m) == <<year, start_index, idx, pattern_i, m.start>>

\* break written where continue stands: the rest of the page is dropped
Continue_Break ==
    /\ pc' = "fetch_listing"
    /\ start_index' = NextStart(start_index)
    /\ UNCHANGED <<year, idx>>

\* continue: on to the next result row of this page
Continue ==
    /\ pc' = "row"
    /\ idx' = idx + 1
    /\ UNCHANGED <<year, start_index>>

\* break out of the while loop: the next year, or the end of the year loop
Break ==
    IF year + 1 < YearStop
    THEN /\ year' = year + 1
         /\ start_index' = StartOfYear(start_index)
         /\ pc' = "fetch_listing"
    ELSE /\ pc' = "save"
         /\ UNCHANGED <<year, start_index>>

\* The pages the site may answer a listing request with
ListingAnswers ==
    {NoSoup, ListingSoup(<<>>)}
      \cup (IF year < YearFirst + ListedYears
            THEN {ListingSoup(rows) : rows \in SeqsUpTo(SampleRows, MaxRows - served)}
            ELSE {})

\* ----------------------------------------------------------------- actions

\* Lines 73-86: one listing request and the two ways out of the year's loop
FetchListing ==
    /\ pc = "fetch_listing"
    /\ \E answer \in ListingAnswers :
         /\ soup' = answer
         /\ log' = Append(log, Request("listing", 0))
         /\ IF answer.none
            THEN Break /\ UNCHANGED <<results, idx, served>>
            ELSE /\ results' = answer.results
                 /\ served' = served + Len(answer.results)
                 /\ IF answer.results = <<>>
                    THEN Break /\ UNCHANGED idx
                    ELSE /\ pc' = "row"
                         /\ idx' = 1
                         /\ UNCHANGED <<year, start_index>>
    /\ UNCHANGED << exception, case_title, case_details_url, citation, details_soup,
                    pdf_url, document_text, pattern_i, scan_pos, all_propositions,
                    csv_file, xlsx_file, report, origin, since_case, case_base >>

\* Lines 88-101: the next result row, up to the case's citation
ProcessRow ==
    /\ pc = "row"
    /\ idx <= Len(results)
    /\ LET result == results[idx]
       IN  IF ~result.h3
           THEN \* result.find('h3') is None: None.find('a') raises AttributeError
                /\ pc' = "crashed"
                /\ exception' = "AttributeError"
                /\ UNCHANGED <<idx, year, start_index, case_title, case_details_url, citation>>
           ELSE IF ~result.a \/ ~result.has_meta
           THEN /\ Continue
                /\ UNCHANGED <<exception, case_title, case_details_url, citation>>
           ELSE IF ~result.has_href
           THEN \* case_title_tag['href'] raises KeyError
                /\ pc' = "crashed"
                /\ exception' = "KeyError"
                /\ case_title' = result.title
                /\ UNCHANGED <<idx, year, start_index, case_details_url, citation>>
           ELSE /\ case_title' = result.title
                /\ case_details_url' = UrlJoin(BASE_URL, result.href)
                /\ citation' = CitationOf(result.meta, year)
                /\ pc' = "fetch_detail"
                /\ UNCHANGED <<exception, idx, year, start_index>>
    /\ UNCHANGED << soup, results, details_soup, pdf_url, document_text, pattern_i,
                    scan_pos, all_propositions, csv_file, xlsx_file, report, served,
                    log, origin, since_case, case_base >>

\* Lines 103-112: the detail page and its PDF link
FetchDetail ==
    /\ pc = "fetch_detail"
    /\ log' = Append(log, Request("detail", idx))
    /\ since_case' = "case"
    /\ \E answer \in {NoSoup} \cup {DetailSoup(links) : links \in SampleDetails} :
         /\ details_soup' = answer
         /\ IF answer.none \/ FindPdfTag(answer.links) = 0
            THEN Continue /\ UNCHANGED pdf_url
            ELSE /\ pdf_url' = UrlJoin(BASE_URL, Href(answer.links[FindPdfTag(answer.links)]))
                 /\ pc' = "fetch_pdf"
                 /\ UNCHANGED <<idx, year, start_index>>
    /\ UNCHANGED << exception, soup, results, case_title, case_details_url, citation,
                    document_text, pattern_i, scan_pos, all_propositions, csv_file,
                    xlsx_file, report, served, origin, case_base >>

\* Lines 115-119 with extract_text_from_pdf (41-63): the text, "" on any error
ExtractPdf ==
    /\ pc = "fetch_pdf"
    /\ log' = Append(log, Request("pdf", idx))
    /\ \E text \in {<<>>} \cup {ExtractText(pages) : pages \in SamplePdfs} :
         /\ document_text' = text
         /\ IF text = <<>>
            THEN Continue /\ UNCHANGED <<pattern_i, scan_pos, case_base>>
            ELSE /\ pc' = "match"
                 /\ pattern_i' = 1
                 /\ scan_pos' = 1
                 /\ case_base' = Len(all_propositions)
                 /\ UNCHANGED <<idx, year, start_index>>
    /\ UNCHANGED << exception, soup, results, case_title, case_details_url, citation,
                    details_soup, pdf_url, all_propositions, csv_file, xlsx_file,
                    report, served, origin, since_case >>

\* Lines 121-133: one step of the two loops, the next match of the current
\* pattern appended, or the next pattern begun
MatchStep ==
    /\ pc = "match"
    /\ LET m == Search(pattern_i, document_text, scan_pos)
       IN  IF m.found
           THEN /\ all_propositions' = ListAppend(all_propositions, PropositionData(m))
                /\ origin' = ListAppend(origin, OriginKey(m))
                /\ scan_pos' = AfterMatch(m, document_text)
                /\ UNCHANGED <<pc, pattern_i>>
           ELSE /\ IF pattern_i < NumPatterns
                   THEN pattern_i' = pattern_i + 1 /\ scan_pos' = 1 /\ UNCHANGED pc
                   ELSE pc' = "sleep" /\ UNCHANGED <<pattern_i, scan_pos>>
                /\ UNCHANGED <<all_propositions, origin>>
    /\ UNCHANGED << exception, year, start_index, soup, results, idx, case_title,
                    case_details_url, citation, details_soup, pdf_url, document_text,
                    csv_file, xlsx_file, report, served, log, since_case, case_base >>

\* Line 135: time.sleep(1), the last statement of the row's body
Sleep ==
    /\ pc = "sleep"
    /\ since_case' = "slept"
    /\ pc' = "row"
    /\ idx' = idx + 1
    /\ UNCHANGED << exception, year, start_index, soup, results, case_title,
                    case_details_url, citation, details_soup, pdf_url, document_text,
                    pattern_i, scan_pos, all_propositions, csv_file, xlsx_file, report,
                    served, log, origin, case_base >>

\* Line 137: the rows of the page are done
NextPage ==
    /\ pc = "row"
    /\ idx > Len(results)
    /\ start_index' = NextStart(start_index)
    /\ pc' = "fetch_listing"
    /\ UNCHANGED << exception, year, soup, results, idx, case_title, case_details_url,
                    citation, details_soup, pdf_url, document_text, pattern_i,
                    scan_pos, all_propositions, csv_file, xlsx_file, report, served,
                    log, origin, since_case, case_base >>

\* Lines 139-147: the early return, or the CSV
Save ==
    /\ pc = "save"
    /\ IF NothingExtracted(all_propositions)
       THEN /\ report' = "No propositions were extracted"
            /\ pc' = "done"
            /\ UNCHANGED csv_file
       ELSE /\ csv_file' = [exists |-> TRUE, rows |-> all_propositions]
            /\ pc' = "write_xlsx"
            /\ UNCHANGED report
    /\ UNCHANGED << exception, year, start_index, soup, results, idx, case_title,
                    case_details_url, citation, details_soup, pdf_url, document_text,
                    pattern_i, scan_pos, all_propositions, xlsx_file, served, log,
                    origin, since_case, case_base >>

\* Lines 148-152: the workbook and the closing report
WriteXlsx ==
    /\ pc = "write_xlsx"
    /\ xlsx_file' = [exists |-> TRUE, rows |-> all_propositions]
    /\ report' = "Successfully saved"
    /\ pc' = "done"
    /\ UNCHANGED << exception, year, start_index, soup, results, idx, case_title,
                    case_details_url, citation, details_soup, pdf_url, document_text,
                    pattern_i, scan_pos, all_propositions, csv_file, served, log,
                    origin, since_case, case_base >>

Next ==
    \/ FetchListing
    \/ ProcessRow
    \/ FetchDetail
    \/ ExtractPdf
    \/ MatchStep
    \/ Sleep
    \/ NextPage
    \/ Save
    \/ WriteXlsx

Spec == Init /\ [][Next]_vars

\* --------------------------------------------- the matcher on its own

\* The tokens the texts of SpecMatch are drawn from
Alphabet == {"Q", "C", "T", "i", " ", "N", "."}

\* SpecMatch starts where ExtractPdf has just left a case with text: the only
\* row of the first listing page of the first year, its detail page fetched,
\* its PDF of one page whose text is any token sequence of up to MaxLen tokens.
InitMatch ==
    /\ pc = "match"
    /\ exception = ""
    /\ year = YearFirst
    /\ start_index = 0
    /\ soup = ListingSoup(<<RowCited>>)
    /\ results = <<RowCited>>
    /\ case_title = RowCited.title
    /\ case_details_url = UrlJoin(BASE_URL, RowCited.href)
    /\ citation = CitationOf(RowCited.meta, YearFirst)
    /\ idx = 1
    /\ details_soup = DetailSoup(DetailWithPdf)
    /\ pdf_url = UrlJoin(BASE_URL, Href(DetailWithPdf[FindPdfTag(DetailWithPdf)]))
    /\ \E page \in SeqsUpTo(Alphabet, MaxLen) : document_text = ExtractText(<<page>>)
    /\ pattern_i = 1
    /\ scan_pos = 1
    /\ all_propositions = <<>>
    /\ csv_file = NoFile
    /\ xlsx_file = NoFile
    /\ report = ""
    /\ served = 1
    /\ log = << <<"listing", YearFirst, 0, 0>>, <<"detail", YearFirst, 0, 1>>,
                <<"pdf", YearFirst, 0, 1>> >>
    /\ origin = <<>>
    /\ since_case = "case"
    /\ case_base = 0

NextMatch ==
    \/ MatchStep
    \/ Sleep

SpecMatch == InitMatch /\ [][NextMatch]_vars

\* ------------------------------------------------------------- properties

Range(f) == {f[k] : k \in DOMAIN f}

Last(q) == q[Len(q)]

IsPrefix(a, b) == Len(a) <= Len(b) /\ SubSeq(b, 1, Len(a)) = a

IsListing(entry) == entry[1] = "listing"

\* The listing requests sent so far, in order
Listings == SelectSeq(log, IsListing)

RECURSIVE LexLess(_, _)
\* a comes before b in the lexicographic order (a and b of one length)
LexLess(a, b) ==
    /\ a # <<>>
    /\ \/ Head(a) < Head(b)
       \/ Head(a) = Head(b) /\ LexLess(Tail(a), Tail(b))

NotBracketOrSpace(c) == c \notin {"[", "]", " "}

CitedCitation == <<"[", "2", "0", "2", "1", "]", " ", "N", "Z", "S", "C", " ", "1", "2">>

\* C1, as claimed: every record's doc_id is its citation with every "[", "]"
\* and space character removed.
C1_DocIdStripsSpaces ==
    \A k \in 1..Len(all_propositions) :
        all_propositions[k].doc_id
            = SelectSeq(all_propositions[k].citation, NotBracketOrSpace)

RECURSIVE Derives(_, _)
\* id is cit with every "[" and "]" left out and every space turned into "_"
Derives(cit, id) ==
    IF cit = <<>> THEN id = <<>>
    ELSE IF Head(cit) \in {"[", "]"} THEN Derives(Tail(cit), id)
    ELSE /\ id # <<>>
         /\ Head(id) = (IF Head(cit) = " " THEN "_" ELSE Head(cit))
         /\ Derives(Tail(cit), Tail(id))

\* C1, amended: every record's doc_id is its citation with every "[" and "]"
\* removed and every space replaced by an underscore, for a citation found in
\* the metadata and for the placeholder UNKNOWN_CITATION_<year> alike.
C1_DocIdUnderscoresSpaces ==
    \A pair \in {<<all_propositions[k].citation, all_propositions[k].doc_id>> :
                   k \in 1..Len(all_propositions)} :
        Derives(pair[1], pair[2])

\* A record of a cited case and a record of a placeholder citation are both held.
C1_Witness ==
    /\ \E k \in 1..Len(all_propositions) :
         /\ all_propositions[k].citation = CitedCitation
         /\ all_propositions[k].doc_id
              = <<"2", "0", "2", "1", "_", "N", "Z", "S", "C", "_", "1", "2">>
    /\ \E k \in 1..Len(all_propositions) :
         all_propositions[k].citation = UnknownCitation(YearFirst)

\* The row at hand lacks its heading link or its metadata paragraph
RowIncomplete ==
    /\ pc = "row"
    /\ idx <= Len(results)
    /\ ~results[idx].h3 \/ ~results[idx].a \/ ~results[idx].has_meta

\* C2: a result row with no h3, no link in its h3, or no metadata paragraph is
\* skipped without error: no request is sent and no match appended for it, and
\* the next row of the same page is taken up.
C2_IncompleteRowSkipped ==
    [][RowIncomplete =>
         /\ pc' = "row"
         /\ idx' = idx + 1
         /\ exception' = ""
         /\ log' = log
         /\ all_propositions' = all_propositions
         /\ results' = results]_vars

\* The step at hand is a case's detail fetch that fails or finds no PDF link,
\* or its PDF extraction that yields no text
CaseFails ==
    \/ /\ pc = "fetch_detail"
       /\ details_soup'.none \/ FindPdfTag(details_soup'.links) = 0
    \/ /\ pc = "fetch_pdf"
       /\ document_text' = <<>>

\* C3: a case whose detail fetch fails, whose detail page has no .pdf link, or
\* whose PDF yields empty text leaves the match collection unchanged, and the
\* run goes on with the next result row of the same listing page: neither the
\* year's paging loop nor the run is aborted.
C3_FailedCaseSkipped ==
    [][CaseFails =>
         /\ all_propositions' = all_propositions
         /\ pc' = "row"
         /\ idx' = idx + 1
         /\ results' = results
         /\ year' = year
         /\ start_index' = start_index
         /\ exception' = ""]_vars

\* The first case of a page of two rows has just yielded empty text, and the
\* second row is up next.
C3_Witness ==
    /\ pc = "row"
    /\ idx = 2
    /\ Len(results) = 2
    /\ log # <<>>
    /\ Last(log) = <<"pdf", year, start_index, 1>>
    /\ document_text = <<>>

\* A listing request has been sent for every year of the range
AllYearsRequested ==
    \A y \in YEARS_TO_CRAWL : \E k \in 1..Len(log) : IsListing(log[k]) /\ log[k][2] = y

\* C4: with an empty collection after the last year, main() writes neither
\* file, reports it and returns normally; and a file is only ever written with
\* a non-empty collection after all years have been processed.
C4_NoOutputWhenEmpty ==
    /\ (pc \in {"save", "write_xlsx", "done"} /\ all_propositions = <<>>) =>
         /\ ~csv_file.exists
         /\ ~xlsx_file.exists
         /\ exception = ""
         /\ pc # "write_xlsx"
         /\ pc = "done" => report = "No propositions were extracted"
    /\ (csv_file.exists \/ xlsx_file.exists) =>
         /\ all_propositions # <<>>
         /\ csv_file.exists
         /\ pc \in {"write_xlsx", "done"}
         /\ year = YearStop - 1
         /\ AllYearsRequested

\* main() has returned after a crawl that extracted nothing.
C4_Witness ==
    /\ pc = "done"
    /\ all_propositions = <<>>
    /\ report = "No propositions were extracted"
    /\ AllYearsRequested
    /\ \E k \in 1..Len(log) : log[k][1] = "pdf"

\* C5: between any two consecutive cases a sleep occurs: when a case's detail
\* page is about to be fetched, a sleep has happened since the detail request
\* of the case before it, whatever that case's outcome.
C5_SleepBetweenCases ==
    pc = "fetch_detail" => since_case # "case"

\* C6: every run halts by voluntary loop termination and exits normally: it is
\* never in an uncaught-error state, it can always take a step until main()
\* has returned, and it returns having written the outputs or reported that
\* nothing was found.
C6_HaltsNormally ==
    /\ pc # "crashed"
    /\ exception = ""
    /\ pc = "done" \/ ENABLED Next
    /\ pc = "done" =>
         \/ report = "No propositions were extracted"
         \/ report = "Successfully saved" /\ csv_file.exists /\ xlsx_file.exists

\* The listing requests so far: the first is (2004, 0), and each next one is
\* the same year's next offset or the next year's offset 0; the request about
\* to be sent continues them
ListingsInOrder ==
    /\ Listings # <<>> => Listings[1] = <<"listing", YearFirst, 0, 0>>
    /\ \A k \in 1..(Len(Listings) - 1) :
         LET a == Listings[k]
             b == Listings[k + 1]
         IN  \/ b[2] = a[2] /\ b[3] = a[3] + PageStep
             \/ b[2] = a[2] + 1 /\ b[3] = 0
    /\ \A k \in 1..Len(Listings) : Listings[k][2] \in YEARS_TO_CRAWL
    /\ pc = "fetch_listing" =>
         IF Listings = <<>> THEN year = YearFirst /\ start_index = 0
         ELSE \/ year = Last(Listings)[2] /\ start_index = Last(Listings)[3] + PageStep
              \/ year = Last(Listings)[2] + 1 /\ start_index = 0

\* Every year of the range has had its offset 0 requested, once
EveryYearAttemptedOnce ==
    \A y \in YEARS_TO_CRAWL :
        Cardinality({k \in 1..Len(Listings) :
                       Listings[k][2] = y /\ Listings[k][3] = 0}) = 1

\* What a listing request leads to: a failed fetch or a page without rows ends
\* the year and starts the next one at offset 0 (or ends the year loop after
\* 2025); a page with rows keeps the year and the offset while its rows are
\* processed
ListingStep ==
    pc = "fetch_listing" =>
        IF soup'.none \/ soup'.results = <<>>
        THEN IF year < YearStop - 1
             THEN year' = year + 1 /\ start_index' = 0 /\ pc' = "fetch_listing"
             ELSE pc' = "save" /\ year' = year
        ELSE pc' = "row" /\ idx' = 1 /\ year' = year /\ start_index' = start_index

\* The year and the offset change at a listing request or at the end of a
\* page's rows only, the offset by one page
OffsetStep ==
    (pc # "fetch_listing" /\ (year' # year \/ start_index' # start_index)) =>
        /\ pc = "row"
        /\ idx > Len(results)
        /\ year' = year
        /\ start_index' = start_index + PageStep
        /\ pc' = "fetch_listing"

\* C7: the years 2004..2025 are processed in ascending order and each is
\* attempted exactly once, so a run that has ended has attempted them all;
\* within a year the listing requests carry the offsets 0, 10, 20, ... with none
\* skipped or repeated; the year's loop stops at the first failed fetch or the
\* first page without rows, and the next year then starts at offset 0.
C7_YearsAndOffsetsInOrder ==
    /\ []ListingsInOrder
    /\ [](~ENABLED Next => EveryYearAttemptedOnce)
    /\ [][ListingStep /\ OffsetStep]_vars

\* The order of the listing requests alone, which every run keeps, also one
\* that an uncaught exception ends; the years are all attempted, once each, in
\* the runs that reach the end of the year loop.
ListingOrderKept ==
    /\ []ListingsInOrder
    /\ [](pc \in {"save", "write_xlsx", "done"} => EveryYearAttemptedOnce)
    /\ [][ListingStep /\ OffsetStep]_vars

\* The records are in the order of discovery: year, listing page, result row,
\* pattern as declared, position of the match; each record is the one its
\* place of discovery names; and a written file holds the collection as it is
DiscoveryOrder ==
    /\ Len(origin) = Len(all_propositions)
    /\ \A a \in 1..Len(origin) : \A b \in (a + 1)..Len(origin) :
         LexLess(origin[a], origin[b])
    /\ \A k \in 1..Len(origin) :
         /\ all_propositions[k].pattern_matched = PatternNames[origin[k][4]]
         /\ all_propositions[k].citation \in
              {CitedCitation, UnknownCitation(origin[k][1])}
    /\ csv_file.exists => csv_file.rows = all_propositions
    /\ xlsx_file.exists => xlsx_file.rows = all_propositions

\* C8: the match collection is append-only (each step leaves it an extension of
\* what it was), and the exported table keeps its order, which is the order of
\* discovery: year, listing page, result row, pattern as declared, position.
C8_AppendOnlyInOrder ==
    /\ []DiscoveryOrder
    /\ [][IsPrefix(all_propositions, all_propositions')]_vars

\* Both files are written, with records of two cases found in different years,
\* the first of them with matches of several patterns.
C8_Witness ==
    /\ pc = "done"
    /\ xlsx_file.exists
    /\ Len(all_propositions) >= 4
    /\ origin[1][1] < Last(origin)[1]
    /\ origin[1][4] < origin[2][4]

\* C9: no request is sent twice: no listing page (year, offset), and for no
\* result row its detail page or its PDF; so nothing is retried after a failure.
C9_NoRetries ==
    Cardinality(Range(log)) = Len(log)

\* The first case of a page got no further than its detail page (the fetch
\* failed or no PDF link was found), and the second case is at its PDF.
C9_Witness ==
    /\ pc = "fetch_pdf"
    /\ idx = 2
    /\ <<"detail", year, start_index, 1>> \in Range(log)
    /\ <<"pdf", year, start_index, 1>> \notin Range(log)
    /\ <<"detail", year, start_index, 2>> \in Range(log)

RECURSIVE MatchesFrom(_, _, _)
\* The non-overlapping matches of pattern k in text, left to right from pos
MatchesFrom(k, text, pos) ==
    LET m == Search(k, text, pos)
    IN  IF m.found THEN <<m>> \o MatchesFrom(k, text, m.end + 1) ELSE <<>>

\* The first tokens of the lines of text
LineStarts(text) ==
    {s \in 1..Len(text) : ~IsNewline(text[s]) /\ (s = 1 \/ IsNewline(text[s - 1]))}

\* How many non-overlapping matches pattern k has in text, counted without
\* scanning: the lines that hold the phrase; for the fifth pattern the lines
\* that hold the phrase after a letter i; for the first the sentence ends that
\* close an occurrence of the phrase
MatchCount(k, text) ==
    IF k = 1
    THEN Cardinality({Least(SentenceEnds(text, p)) :
                        p \in {q \in 1..Len(text) :
                                 text[q] = PatternPhrase[k] /\ SentenceEnds(text, q) # {}}})
    ELSE IF k = 5
    THEN Cardinality({s \in LineStarts(text) :
                        \E a \in s..LineEnd(text, s) : \E b \in (a + 1)..LineEnd(text, s) :
                            HasI(text[a]) /\ text[b] = PatternPhrase[k]})
    ELSE Cardinality({s \in LineStarts(text) :
                        \E b \in s..LineEnd(text, s) : text[b] = PatternPhrase[k]})

RECURSIVE ExpectedFrom(_, _)
\* The (pattern, match) pairs of text from pattern k on, in the order declared
ExpectedFrom(k, text) ==
    IF k > NumPatterns THEN <<>>
    ELSE [j \in 1..Len(MatchesFrom(k, text, 1)) |->
            [pattern |-> k, match |-> MatchesFrom(k, text, 1)[j]]]
           \o ExpectedFrom(k + 1, text)

\* The records appended for the case at hand
CaseRecords == SubSeq(all_propositions, case_base + 1, Len(all_propositions))

\* C10: once a case with text is matched, the records appended for it number
\* the sum over the six patterns of the pattern's non-overlapping matches in
\* the text (all of them, and no deduplication across patterns); each carries
\* the case's title, citation and PDF url, the name of its pattern, and the
\* matched substring without leading and trailing whitespace.
C10_OneRecordPerMatch ==
    pc = "sleep" =>
        LET expected == ExpectedFrom(1, document_text)
        IN  /\ document_text # <<>>
            /\ Len(CaseRecords)
                 = MatchCount(1, document_text) + MatchCount(2, document_text)
                     + MatchCount(3, document_text) + MatchCount(4, document_text)
                     + MatchCount(5, document_text) + MatchCount(6, document_text)
            /\ \A k \in 1..NumPatterns :
                 Cardinality({j \in 1..Len(CaseRecords) :
                                CaseRecords[j].pattern_matched = PatternNames[k]})
                   = MatchCount(k, document_text)
            /\ Len(CaseRecords) = Len(expected)
            /\ \A j \in 1..Len(CaseRecords) :
                 LET rec == CaseRecords[j]
                     raw == expected[j].match.text
                 IN  /\ rec.title = case_title
                     /\ rec.citation = citation
                     /\ rec.url = pdf_url
                     /\ rec.pattern_matched = PatternNames[expected[j].pattern]
                     /\ rec.proposition # <<>>
                     /\ ~IsSpace(Head(rec.proposition))
                     /\ ~IsSpace(Last(rec.proposition))
                     /\ \E a \in 1..Len(raw) : \E b \in a..Len(raw) :
                          /\ rec.proposition = SubSeq(raw, a, b)
                          /\ \A c \in (1..(a - 1)) \cup ((b + 1)..Len(raw)) : IsSpace(raw[c])

\* A case is matched whose text gave one pattern two matches and another
\* pattern a match too, one of them with whitespace trimmed off.
C10_Witness ==
    /\ pc = "sleep"
    /\ \E a \in 1..Len(CaseRecords) : \E b \in (a + 1)..Len(CaseRecords) :
         CaseRecords[a].pattern_matched = CaseRecords[b].pattern_matched
    /\ \E a \in 1..Len(CaseRecords) : \E b \in (a + 1)..Len(CaseRecords) :
         CaseRecords[a].pattern_matched # CaseRecords[b].pattern_matched
    /\ \E j \in 1..Len(CaseRecords) :
         Len(CaseRecords[j].proposition) < Len(ExpectedFrom(1, document_text)[j].match.text)

=============================================================================
